---- MODULE Spec2Model ----
(***************************************************************************)
(* A model of ectl.py, the ESXi control utility: the snapshot forest of a  *)
(* virtual machine, the visitor-driven walk over it (snap_iterator), the   *)
(* name/id resolution (SnapFinder, find_snap), the current-snapshot lookup *)
(* (CurrSnapFinder, get_curr_snap), the inventory listing (print_vm_info)  *)
(* and the commands that submit host tasks (exec_task, start/stop/reset,   *)
(* snap_create, snap_remove, snap_revert).                                 *)
(*                                                                         *)
(* One behaviour of the model is one invocation of the program: Init picks *)
(* what the host holds and the parsed command line, one action runs the    *)
(* command's handler up to the point where it blocks in WaitForTask or     *)
(* ends, HostReport is the host finishing a submitted task and             *)
(* WaitForTaskReturn is the blocked exec_task resuming.                    *)
(***************************************************************************)
EXTENDS Integers, Sequences, FiniteSets, TLC

VARIABLES
    vm,         \* what find_vm makes of the host: the machine and its snapshot data
    inventory,  \* the entities under the datacenter's vmFolder (vm-list)
    args,       \* the parsed command line
    pc,         \* "start", "waiting" (blocked in WaitForTask), "done", "error", "crash"
    tasks,      \* the host operations submitted so far, in order
    worker,     \* the SnapWorker the command built, as the walk left it
    result,     \* the snapshot node a lookup ended with (None: none)
    error,      \* the message of the EctlException raised, "" if none
    printed,    \* what the command printed
    exit_code   \* the process's exit status, -1 while it runs

vars == <<vm, inventory, args, pc, tasks, worker, result, error, printed, exit_code>>

(***************************************************************************)
(* Bounds of the model.                                                    *)
(***************************************************************************)
\* Every snapshot forest of at most MaxNodes nodes is enumerated.
MaxNodes == 3
\* The nesting, past _MAX_DEPTH, of the deep snapshot chain and of the deep
\* folder chain.
DeepLen == 12

(***************************************************************************)
(* Python values.                                                          *)
(***************************************************************************)
\* None, for a snapshot reference and for a snapshot node: references and
\* nodes are numbered from 1.
None == 0

\* A reference that is the reference of no node of any forest of the model.
StaleRef == MaxNodes + DeepLen + 1

_MAX_DEPTH == 10

(***************************************************************************)
(* int(identifier), SnapFinder.__init__: Python's int() of a string, given *)
(* as its sequence of characters.  White space is stripped at both ends,   *)
(* one sign may lead, and what is left is decimal digits, with single      *)
(* underscores allowed between two digits.  Anything else is a ValueError. *)
(***************************************************************************)
Digits == {"0", "1", "2", "3", "4", "5", "6", "7", "8", "9"}

DigitVal(c) ==
    CASE c = "0" -> 0 [] c = "1" -> 1 [] c = "2" -> 2 [] c = "3" -> 3
      [] c = "4" -> 4 [] c = "5" -> 5 [] c = "6" -> 6 [] c = "7" -> 7
      [] c = "8" -> 8 [] c = "9" -> 9

RECURSIVE LStrip(_)
LStrip(s) == IF s # <<>> /\ Head(s) = " " THEN LStrip(Tail(s)) ELSE s

RECURSIVE RStrip(_)
RStrip(s) ==
    IF s # <<>> /\ s[Len(s)] = " " THEN RStrip(SubSeq(s, 1, Len(s) - 1)) ELSE s

Strip(s) == RStrip(LStrip(s))

WellFormedDigits(s) ==
    /\ s # <<>>
    /\ s[1] \in Digits
    /\ s[Len(s)] \in Digits
    /\ \A i \in 1..Len(s) : s[i] \in Digits \cup {"_"}
    /\ \A i \in 1..(Len(s) - 1) : ~(s[i] = "_" /\ s[i + 1] = "_")

RECURSIVE DigitsValue(_, _)
DigitsValue(s, acc) ==
    IF s = <<>> THEN acc
    ELSE IF Head(s) = "_" THEN DigitsValue(Tail(s), acc)
    ELSE DigitsValue(Tail(s), 10 * acc + DigitVal(Head(s)))

\* [ok |-> FALSE] is the ValueError.
PyInt(s) ==
    LET t == Strip(s)
        signed == t # <<>> /\ Head(t) \in {"+", "-"}
        body == IF signed THEN Tail(t) ELSE t
        mag == DigitsValue(body, 0)
    IN IF WellFormedDigits(body)
       THEN [ok |-> TRUE, val |-> IF signed /\ Head(t) = "-" THEN -mag ELSE mag]
       ELSE [ok |-> FALSE, val |-> 0]

(***************************************************************************)
(* The snapshot data of a machine, vm.snapshot.  The nodes of the forest   *)
(* are numbered 1..n in the order the host lists them (a node before its   *)
(* children, a node's subtree before its next sibling); parent[i] is the   *)
(* node holding i in its childSnapshotList, 0 for a root.  Node i has the  *)
(* host reference i (snap.snapshot), its id and its name.                  *)
(***************************************************************************)
\* vm.snapshot is None
NoSnapshot ==
    [isNone |-> TRUE, n |-> 0, parent |-> <<>>, id |-> <<>>, name |-> <<>>,
     currentSnapshot |-> None]

\* snap.childSnapshotList, in stored order; vm.snapshot.rootSnapshotList for 0
childSnapshotList(s, snap) ==
    SelectSeq([k \in 1..s.n |-> k], LAMBDA j : s.parent[j] = snap)

rootSnapshotList(s) == childSnapshotList(s, 0)

RECURSIVE Depth(_, _)
Depth(s, snap) == IF snap = 0 THEN 0 ELSE 1 + Depth(s, s.parent[snap])

\* a is snap or one of its ancestors; 0 stands for the list of roots
RECURSIVE IsAncestorOrSelf(_, _, _)
IsAncestorOrSelf(s, a, snap) ==
    \/ a = snap
    \/ snap # 0 /\ IsAncestorOrSelf(s, a, s.parent[snap])

IsProperAncestor(s, a, snap) ==
    snap # 0 /\ IsAncestorOrSelf(s, a, s.parent[snap])

(***************************************************************************)
(* SnapWorker and its subclasses.  One record shape holds the fields of    *)
(* all three; visited is the record of the apply calls made on the worker  *)
(* (the node, its depth, and cont_iteration as the call left it).          *)
(***************************************************************************)
BY_NAME == 1
BY_ID == 2

\* SnapWorker.__init__
SnapWorker(kind) ==
    [kind |-> kind, cont_iteration |-> TRUE, identifier_type |-> 0,
     identifier |-> [str |-> <<>>, int |-> 0], snaps |-> <<>>,
     curr_snap |-> None, snap_ref |-> None, visited |-> <<>>, lines |-> <<>>]

NoWorker == SnapWorker("none")

\* SnapPrinter.__init__
SnapPrinter(v) ==
    [SnapWorker("SnapPrinter") EXCEPT
        !.curr_snap = IF v.snapshot.isNone THEN None ELSE v.snapshot.currentSnapshot]

\* SnapPrinter.apply: one line of the listing
SnapPrinter_apply(w, s, snap) ==
    [w EXCEPT !.lines =
        Append(@, [id |-> s.id[snap], name |-> s.name[snap],
                   curr |-> IF snap = w.curr_snap THEN "*" ELSE ""])]

\* SnapFinder.__init__ with the ValueError swallowed: the identifier that is
\* no integer is looked up as a name
SnapFinder_ValueErrorSwallowed(identifier, identifier_type) ==
    [raised |-> FALSE,
     worker |-> [SnapWorker("SnapFinder") EXCEPT
                    !.identifier_type = IF PyInt(identifier).ok THEN identifier_type ELSE BY_NAME,
                    !.identifier = [str |-> identifier, int |-> PyInt(identifier).val]]]

\* SnapFinder.__init__: raised is the EctlException "Illegal snap id"
SnapFinder(identifier, identifier_type) ==
    IF identifier_type = BY_NAME
    THEN [raised |-> FALSE,
          worker |-> [SnapWorker("SnapFinder") EXCEPT
                         !.identifier_type = BY_NAME,
                         !.identifier = [str |-> identifier, int |-> 0]]]
    ELSE IF PyInt(identifier).ok
    THEN [raised |-> FALSE,
          worker |-> [SnapWorker("SnapFinder") EXCEPT
                         !.identifier_type = identifier_type,
                         !.identifier = [str |-> <<>>, int |-> PyInt(identifier).val]]]
    ELSE [raised |-> TRUE, worker |-> NoWorker]

\* SnapFinder.apply stopping at the first match in both modes
SnapFinder_apply_StopsByName(w, s, snap) ==
    IF (w.identifier_type = BY_NAME /\ s.name[snap] = w.identifier.str)
       \/ (w.identifier_type # BY_NAME /\ s.id[snap] = w.identifier.int)
    THEN [w EXCEPT !.snaps = Append(@, snap), !.cont_iteration = FALSE]
    ELSE w

\* SnapFinder.apply
SnapFinder_apply(w, s, snap) ==
    IF w.identifier_type = BY_NAME
    THEN IF s.name[snap] = w.identifier.str
         THEN [w EXCEPT !.snaps = Append(@, snap)]
         ELSE w
    ELSE IF s.id[snap] = w.identifier.int
         THEN [w EXCEPT !.snaps = Append(@, snap), !.cont_iteration = FALSE]
         ELSE w

\* CurrSnapFinder.__init__
CurrSnapFinder(snap_ref) ==
    [SnapWorker("CurrSnapFinder") EXCEPT !.snap_ref = snap_ref]

\* CurrSnapFinder.apply
CurrSnapFinder_apply(w, s, snap) ==
    IF snap = w.snap_ref
    THEN [w EXCEPT !.curr_snap = snap, !.cont_iteration = FALSE]
    ELSE w

\* worker.apply(snap), dispatched on the worker's class, and recorded
apply(w, s, snap) ==
    LET w1 == CASE w.kind = "SnapPrinter" -> SnapPrinter_apply(w, s, snap)
                [] w.kind = "SnapFinder" -> SnapFinder_apply(w, s, snap)
                [] w.kind = "CurrSnapFinder" -> CurrSnapFinder_apply(w, s, snap)
                [] OTHER -> w
    IN [w1 EXCEPT !.visited =
           Append(@, [node |-> snap, depth |-> Depth(s, snap),
                      cont |-> w1.cont_iteration])]

(***************************************************************************)
(* _snap_iterator and snap_iterator.  ForEachSnap is the for loop of both: *)
(* it calls _snap_iterator on every element of the list, whatever the      *)
(* worker's flag says.                                                     *)
(***************************************************************************)
RECURSIVE _snap_iterator(_, _, _)
RECURSIVE ForEachSnap(_, _, _)

\* the for loop leaving as soon as the worker's flag is cleared
ForEachSnap_BreaksOnFlag(s, list, w) ==
    IF list = <<>> \/ ~w.cont_iteration THEN w
    ELSE ForEachSnap(s, Tail(list), _snap_iterator(s, Head(list), w))

ForEachSnap(s, list, w) ==
    IF list = <<>> THEN w
    ELSE ForEachSnap(s, Tail(list), _snap_iterator(s, Head(list), w))

\* _snap_iterator applying the worker after the children
_snap_iterator_ChildrenFirst(s, snap, w) ==
    LET w1 == ForEachSnap(s, childSnapshotList(s, snap), w)
    IN IF ~w1.cont_iteration THEN w1 ELSE apply(w1, s, snap)

_snap_iterator(s, snap, w) ==
    LET w1 == apply(w, s, snap)
    IN IF ~w1.cont_iteration THEN w1
       ELSE ForEachSnap(s, childSnapshotList(s, snap), w1)

snap_iterator(v, w) ==
    IF v.snapshot.isNone THEN w
    ELSE ForEachSnap(v.snapshot, rootSnapshotList(v.snapshot), w)

(***************************************************************************)
(* print_vm_info.  The inventory is numbered like the snapshot forest;     *)
(* isFolder[e] says that entity e has a childEntity attribute.  called is  *)
(* the record of the calls made (the entity and the depth argument), lines *)
(* the machines printed.                                                   *)
(***************************************************************************)
childEntity(inv, e) ==
    SelectSeq([k \in 1..inv.n |-> k], LAMBDA j : inv.parent[j] = e)

RECURSIVE print_vm_info(_, _, _, _)
RECURSIVE ForEachEntity(_, _, _, _)

ForEachEntity(inv, list, depth, out) ==
    IF list = <<>> THEN out
    ELSE ForEachEntity(inv, Tail(list), depth,
                       print_vm_info(inv, Head(list), depth, out))

\* print_vm_info without the depth test
print_vm_info_NoDepthTest(inv, e, depth, out) ==
    LET out1 == [out EXCEPT !.called = Append(@, [entity |-> e, depth |-> depth])]
    IN IF inv.isFolder[e]
       THEN ForEachEntity(inv, childEntity(inv, e), depth + 1, out1)
       ELSE [out1 EXCEPT !.lines = Append(@, e)]

print_vm_info(inv, e, depth, out) ==
    LET out1 == [out EXCEPT !.called = Append(@, [entity |-> e, depth |-> depth])]
    IN IF inv.isFolder[e]
       THEN IF depth > _MAX_DEPTH THEN out1
            ELSE ForEachEntity(inv, childEntity(inv, e), depth + 1, out1)
       ELSE [out1 EXCEPT !.lines = Append(@, e)]

NothingPrinted == [msg |-> "", lines |-> <<>>, called |-> <<>>]

(***************************************************************************)
(* find_snap: raised with the message of the EctlException, or the node.   *)
(***************************************************************************)
find_snap(v, a) ==
    LET ctor == SnapFinder(a.snap, IF a.by_id THEN BY_ID ELSE BY_NAME)
        w == snap_iterator(v, ctor.worker)
    IN IF ctor.raised
       THEN [raised |-> TRUE, error |-> "Illegal snap id", snap |-> None,
             worker |-> NoWorker]
       ELSE IF Len(w.snaps) = 0
       THEN [raised |-> TRUE, error |-> "has no such snapshot", snap |-> None,
             worker |-> w]
       ELSE IF Len(w.snaps) > 1
       THEN [raised |-> TRUE, error |-> "has multiple snapshots named",
             snap |-> None, worker |-> w]
       ELSE [raised |-> FALSE, error |-> "", snap |-> w.snaps[1], worker |-> w]

(***************************************************************************)
(* Host tasks.  A task is the operation, the object it was invoked on, its *)
(* parameters, its state on the host, the error message of the exec_task   *)
(* call that submitted it ("" when it was invoked outside exec_task) and   *)
(* the number of WaitForTask calls that returned for it.                   *)
(***************************************************************************)
Task(op, obj, params, error_message) ==
    [op |-> op, obj |-> obj, params |-> params, state |-> "running",
     error_message |-> error_message, waits |-> 0]

\* the comparison of exec_task against a state the host never reports
TaskFailed_WrongLiteral(state) == state # "Success"

\* the comparison of exec_task: WaitForTask(...) != "success"
TaskFailed(state) == state # "success"

\* exec_task, up to the call of WaitForTask: the task is invoked, and the
\* caller blocks
exec_task(op, obj, error_message, params) ==
    /\ tasks' = Append(tasks, Task(op, obj, params, error_message))
    /\ pc' = "waiting"
    /\ UNCHANGED <<error, exit_code>>

\* raise EctlException(msg), caught by the top level: the message is printed
\* under the Error banner and the process exits with status 1
Raise(msg) ==
    /\ pc' = "error"
    /\ error' = msg
    /\ exit_code' = 1

\* an exception the top level does not catch (AttributeError on None): the
\* interpreter prints the traceback and exits with status 1
Crash ==
    /\ pc' = "crash"
    /\ error' = "AttributeError"
    /\ exit_code' = 1

\* the handler returns and the script ends
Return ==
    /\ pc' = "done"
    /\ exit_code' = 0
    /\ UNCHANGED error

\* find_vm with raise_on_missing
find_vm_raises(v) == ~v.exists

VmNotFound == "Unable to find VM name"

(***************************************************************************)
(* The inputs: what the host holds, and the command line.                  *)
(***************************************************************************)
\* The parent vectors of the forests of n nodes numbered in listing order:
\* the parent of node i is node i - 1, one of its ancestors, or none.
ParentVectors(n) ==
    {p \in [1..n -> 0..n] :
        \A i \in 1..n :
            /\ p[i] < i
            /\ i > 1 => IsAncestorOrSelf([parent |-> p], p[i], i - 1)}

\* What a node may carry: two nodes of one name and different ids, two
\* nodes of one id and different names.
Labels ==
    {[id |-> 1, name |-> <<"x">>], [id |-> 2, name |-> <<"x">>],
     [id |-> 2, name |-> <<"1">>]}

\* vm.snapshot.currentSnapshot: absent, the reference of a node, or a
\* reference of no node
Currents(n) == {None, StaleRef} \cup 1..n

SnapshotData(n, p, l, c) ==
    [isNone |-> FALSE, n |-> n, parent |-> p,
     id |-> [i \in 1..n |-> l[i].id], name |-> [i \in 1..n |-> l[i].name],
     currentSnapshot |-> c]

SmallSnapshots ==
    UNION {UNION {{SnapshotData(n, p, l, c) : l \in [1..n -> Labels], c \in Currents(n)}
                  : p \in ParentVectors(n)}
           : n \in 0..MaxNodes}

\* roots [A(children [B, C]), D]
ExampleSnapshots ==
    {[isNone |-> FALSE, n |-> 4, parent |-> <<0, 1, 1, 0>>, id |-> <<1, 2, 3, 4>>,
      name |-> << <<"A">>, <<"B">>, <<"C">>, <<"D">> >>, currentSnapshot |-> c]
     : c \in Currents(4)}

\* a chain nested deeper than _MAX_DEPTH
DeepSnapshots ==
    {[isNone |-> FALSE, n |-> DeepLen, parent |-> [i \in 1..DeepLen |-> i - 1],
      id |-> [i \in 1..DeepLen |-> i], name |-> [i \in 1..DeepLen |-> <<"x">>],
      currentSnapshot |-> c]
     : c \in {None, DeepLen}}

Snapshots == {NoSnapshot} \cup SmallSnapshots \cup ExampleSnapshots \cup DeepSnapshots

NoVm == [exists |-> FALSE, snapshot |-> NoSnapshot]

VMs == {NoVm} \cup {[exists |-> TRUE, snapshot |-> s] : s \in Snapshots}

NoInventory == [n |-> 0, parent |-> <<>>, isFolder |-> <<>>]

\* only a folder has children
SmallInventories ==
    UNION {UNION {{[n |-> n, parent |-> p, isFolder |-> f] :
                     f \in {g \in [1..n -> BOOLEAN] : \A i \in 1..n : p[i] # 0 => g[p[i]]}}
                  : p \in ParentVectors(n)}
           : n \in 0..MaxNodes}

\* a chain of folders with a machine, or an empty folder, at its end
DeepInventories ==
    {[n |-> k, parent |-> [i \in 1..k |-> i - 1],
      isFolder |-> [i \in 1..k |-> i < k \/ last]]
     : k \in _MAX_DEPTH..DeepLen, last \in BOOLEAN}

Inventories == SmallInventories \cup DeepInventories

\* the SNAP argument, as typed
IdentifierStrings ==
    {<<"1">>, <<"2">>, <<" ", "1">>, <<"+", "0", "2">>, <<"x">>, <<"1", "_">>, <<>>}

Args(command, snap_is_None, snap, by_id, start) ==
    [command |-> command, snap_is_None |-> snap_is_None, snap |-> snap,
     by_id |-> by_id, start |-> start]

\* the commands that resolve SNAP
FindArgs ==
    {Args(c, FALSE, s, i, FALSE) :
        c \in {"snap-remove", "snap-raw-info"}, s \in IdentifierStrings, i \in BOOLEAN}
    \cup {Args("revert", FALSE, s, i, st) :
            s \in IdentifierStrings, i \in BOOLEAN, st \in BOOLEAN}

\* the commands that read vm.snapshot.currentSnapshot
CurrentArgs ==
    {Args(c, TRUE, <<>>, FALSE, FALSE) : c \in {"snap-list", "get_curr_snap"}}
    \cup {Args("revert", TRUE, <<>>, FALSE, st) : st \in BOOLEAN}

OtherArgs ==
    {Args(c, TRUE, <<>>, FALSE, FALSE) : c \in {"start", "stop", "reset"}}
    \cup {Args("snap-create", FALSE, <<"x">>, FALSE, FALSE)}

VmListArgs == Args("vm-list", TRUE, <<>>, FALSE, FALSE)

\* The commands that read currentSnapshot are run against every current
\* reference; for the others, which never read it, the current snapshot is
\* the last node listed.
Init ==
    /\ \/ /\ vm \in VMs
          /\ args \in CurrentArgs
          /\ inventory = NoInventory
       \/ /\ vm \in {v \in VMs : v.snapshot.currentSnapshot = v.snapshot.n}
          /\ args \in FindArgs \cup OtherArgs
          /\ inventory = NoInventory
       \/ /\ vm = NoVm
          /\ args = VmListArgs
          /\ inventory \in Inventories
    /\ pc = "start"
    /\ tasks = <<>>
    /\ worker = NoWorker
    /\ result = None
    /\ error = ""
    /\ printed = NothingPrinted
    /\ exit_code = -1

(***************************************************************************)
(* The commands.                                                           *)
(***************************************************************************)
\* vm.PowerOn(), vm.PowerOff(), vm.Reset(): the task is invoked and the
\* task object it returns is dropped
Invoke(op) == tasks' = Append(tasks, Task(op, "vm", <<>>, ""))

start_vm ==
    /\ pc = "start"
    /\ args.command = "start"
    /\ IF find_vm_raises(vm)
       THEN Raise(VmNotFound) /\ UNCHANGED tasks
       ELSE Invoke("PowerOn") /\ Return
    /\ UNCHANGED <<vm, inventory, args, worker, result, printed>>

stop_vm ==
    /\ pc = "start"
    /\ args.command = "stop"
    /\ IF find_vm_raises(vm)
       THEN Raise(VmNotFound) /\ UNCHANGED tasks
       ELSE Invoke("PowerOff") /\ Return
    /\ UNCHANGED <<vm, inventory, args, worker, result, printed>>

reset_vm ==
    /\ pc = "start"
    /\ args.command = "reset"
    /\ IF find_vm_raises(vm)
       THEN Raise(VmNotFound) /\ UNCHANGED tasks
       ELSE Invoke("Reset") /\ Return
    /\ UNCHANGED <<vm, inventory, args, worker, result, printed>>

print_vm_list ==
    /\ pc = "start"
    /\ args.command = "vm-list"
    /\ printed' = ForEachEntity(inventory, childEntity(inventory, 0), 1,
                                [NothingPrinted EXCEPT !.msg = "Name Power IP Address"])
    /\ Return
    /\ UNCHANGED <<vm, inventory, args, tasks, worker, result>>

print_snapshots ==
    /\ pc = "start"
    /\ args.command = "snap-list"
    /\ IF find_vm_raises(vm)
       THEN Raise(VmNotFound) /\ UNCHANGED <<worker, printed>>
       ELSE IF vm.snapshot.isNone
       THEN /\ printed' = [NothingPrinted EXCEPT !.msg = "No snapshots found for vm"]
            /\ Return
            /\ UNCHANGED worker
       ELSE LET w == snap_iterator(vm, SnapPrinter(vm))
            IN /\ worker' = w
               /\ printed' = [NothingPrinted EXCEPT !.msg = "ID Name Creation Time Crnt",
                                                    !.lines = w.lines]
               /\ Return
    /\ UNCHANGED <<vm, inventory, args, tasks, result>>

snap_create ==
    /\ pc = "start"
    /\ args.command = "snap-create"
    /\ IF find_vm_raises(vm)
       THEN Raise(VmNotFound) /\ UNCHANGED tasks
       ELSE exec_task("CreateSnapshot", "vm", "Error creating snapshot",
                      <<args.snap, "", FALSE, FALSE>>)
    /\ UNCHANGED <<vm, inventory, args, worker, result, printed>>

snap_remove ==
    /\ pc = "start"
    /\ args.command = "snap-remove"
    /\ IF find_vm_raises(vm)
       THEN Raise(VmNotFound) /\ UNCHANGED <<tasks, worker, result>>
       ELSE LET f == find_snap(vm, args)
            IN /\ worker' = f.worker
               /\ result' = f.snap
               /\ IF f.raised
                  THEN Raise(f.error) /\ UNCHANGED tasks
                  ELSE exec_task("RemoveSnapshot_Task", f.snap,
                                 "Error removing snapshots", <<TRUE>>)
    /\ UNCHANGED <<vm, inventory, args, printed>>

\* snap_revert, up to the call of WaitForTask
snap_revert ==
    /\ pc = "start"
    /\ args.command = "revert"
    /\ IF find_vm_raises(vm)
       THEN Raise(VmNotFound) /\ UNCHANGED <<tasks, worker, result>>
       ELSE IF args.snap_is_None
       THEN /\ UNCHANGED <<worker, result>>
            /\ IF vm.snapshot.isNone \/ vm.snapshot.currentSnapshot = None
               THEN Crash /\ UNCHANGED tasks
               ELSE exec_task("RevertToSnapshot_Task", vm.snapshot.currentSnapshot,
                              "Error reverting snapshot", <<>>)
       ELSE LET f == find_snap(vm, args)
            IN /\ worker' = f.worker
               /\ result' = f.snap
               /\ IF f.raised
                  THEN Raise(f.error) /\ UNCHANGED tasks
                  ELSE exec_task("RevertToSnapshot_Task", f.snap,
                                 "Error reverting snapshot", <<>>)
    /\ UNCHANGED <<vm, inventory, args, printed>>

snap_raw_info ==
    /\ pc = "start"
    /\ args.command = "snap-raw-info"
    /\ IF find_vm_raises(vm)
       THEN Raise(VmNotFound) /\ UNCHANGED <<worker, result, printed>>
       ELSE LET f == find_snap(vm, args)
            IN /\ worker' = f.worker
               /\ result' = f.snap
               /\ IF f.raised
                  THEN Raise(f.error) /\ UNCHANGED printed
                  ELSE /\ printed' = [NothingPrinted EXCEPT !.lines = <<f.snap>>]
                       /\ Return
    /\ UNCHANGED <<vm, inventory, args, tasks>>

\* get_curr_snap(vm): the function takes the machine, so there is one
get_curr_snap ==
    /\ pc = "start"
    /\ args.command = "get_curr_snap"
    /\ vm.exists
    /\ IF vm.snapshot.isNone
       THEN Crash /\ UNCHANGED <<worker, result>>
       ELSE LET w == snap_iterator(vm, CurrSnapFinder(vm.snapshot.currentSnapshot))
            IN /\ worker' = w
               /\ result' = w.curr_snap
               /\ Return
    /\ UNCHANGED <<vm, inventory, args, tasks, printed>>

(***************************************************************************)
(* The host, and the return of WaitForTask.                                *)
(***************************************************************************)
\* the host ends a task it was running, one way or the other
HostReport ==
    /\ \E i \in 1..Len(tasks), outcome \in {"success", "error"} :
          /\ tasks[i].state = "running"
          /\ tasks' = [tasks EXCEPT ![i].state = outcome]
    /\ UNCHANGED <<vm, inventory, args, pc, worker, result, error, printed, exit_code>>

\* exec_task from the return of WaitForTask on, and what the caller does
\* after exec_task: snap_revert powers the machine on if --start was given
WaitForTaskReturn ==
    /\ pc = "waiting"
    /\ LET i == Len(tasks)
           waited == [tasks EXCEPT ![i].waits = @ + 1]
       IN /\ tasks[i].state # "running"
          /\ IF TaskFailed(tasks[i].state)
             THEN Raise(tasks[i].error_message) /\ tasks' = waited
             ELSE /\ Return
                  /\ tasks' = IF args.command = "revert" /\ args.start
                              THEN Append(waited, Task("PowerOn", "vm", <<>>, ""))
                              ELSE waited
    /\ UNCHANGED <<vm, inventory, args, worker, result, printed>>

Next ==
    \/ start_vm
    \/ stop_vm
    \/ reset_vm
    \/ print_vm_list
    \/ print_snapshots
    \/ snap_create
    \/ snap_remove
    \/ snap_revert
    \/ snap_raw_info
    \/ get_curr_snap
    \/ HostReport
    \/ WaitForTaskReturn

Spec == Init /\ [][Next]_vars

(***************************************************************************)
(* Vocabulary of the properties.                                           *)
(***************************************************************************)
Finished == pc \in {"done", "error", "crash"}

FindCommands == {"snap-remove", "snap-raw-info", "revert"}

\* the command has called find_snap on a machine that exists
Resolved ==
    /\ pc # "start"
    /\ vm.exists
    /\ args.command \in FindCommands
    /\ ~args.snap_is_None

FindErrors == {"Illegal snap id", "has no such snapshot", "has multiple snapshots named"}

\* find_snap returned node
Returned(node) == result = node /\ error \notin FindErrors

\* find_snap raised msg
Failed(msg) == pc = "error" /\ error = msg /\ result = None

NodesWithId(v) == {i \in 1..vm.snapshot.n : vm.snapshot.id[i] = v}

NodesWithName(s) == {i \in 1..vm.snapshot.n : vm.snapshot.name[i] = s}

Min(S) == CHOOSE x \in S : \A y \in S : x <= y

VisitedNodes == [k \in 1..Len(worker.visited) |-> worker.visited[k].node]

\* the walk was driven by a worker that never clears cont_iteration
NeverStoppingWalk ==
    \/ worker.kind = "SnapPrinter"
    \/ worker.kind = "SnapFinder" /\ worker.identifier_type = BY_NAME

\* the position of the apply call on node in the record of the walk
Pos(node) == CHOOSE k \in 1..Len(worker.visited) : worker.visited[k].node = node

(***************************************************************************)
(* C1.  Early stop: once an apply call has left cont_iteration cleared, no *)
(* apply call follows it in the walk, on any node.                         *)
(***************************************************************************)
C1_EarlyStop ==
    \A i, j \in 1..Len(worker.visited) :
        i < j => worker.visited[i].cont

(***************************************************************************)
(* C2.  By-id resolution: an identifier that is no integer fails with the  *)
(* invalid-identifier error before any apply call; an integer carried by   *)
(* exactly one node resolves to that node; an integer carried by no node   *)
(* fails with the not-found error.                                         *)
(***************************************************************************)
C2_ByIdResolution ==
    (Resolved /\ args.by_id) =>
        LET p == PyInt(args.snap)
            m == NodesWithId(p.val)
        IN /\ ~p.ok => Failed("Illegal snap id") /\ worker.visited = <<>>
           /\ (p.ok /\ Cardinality(m) = 1) => \E node \in m : Returned(node)
           /\ (p.ok /\ m = {}) => Failed("has no such snapshot")

\* an identifier with white space in it resolves to the nested node that
\* alone carries the id
C2_Witness ==
    /\ Resolved /\ args.by_id
    /\ args.snap = <<" ", "1">>
    /\ Cardinality(NodesWithId(1)) = 1
    /\ result \in NodesWithId(1)
    /\ vm.snapshot.parent[result] # 0
    /\ Returned(result)

(***************************************************************************)
(* C3.  By-name resolution: with two or more nodes of the name, wherever   *)
(* they are, the ambiguous-checkpoint error is raised and apply has been   *)
(* called on every node of the forest; with one, that node is returned;    *)
(* with none, the not-found error is raised.                               *)
(***************************************************************************)
C3_ByNameResolution ==
    (Resolved /\ ~args.by_id) =>
        LET m == NodesWithName(args.snap)
        IN /\ Cardinality(m) >= 2 =>
                /\ Failed("has multiple snapshots named")
                /\ Len(worker.visited) = vm.snapshot.n
                /\ {VisitedNodes[k] : k \in 1..Len(worker.visited)} = 1..vm.snapshot.n
           /\ Cardinality(m) = 1 => \E node \in m : Returned(node)
           /\ m = {} => Failed("has no such snapshot")

\* two nodes of the name, one a descendant of the other, and a third node
\* after them
C3_Witness ==
    /\ Resolved /\ ~args.by_id
    /\ \E a, b \in NodesWithName(args.snap) :
          /\ IsProperAncestor(vm.snapshot, a, b)
          /\ b < vm.snapshot.n
    /\ Failed("has multiple snapshots named")

(***************************************************************************)
(* C4.  Traversal order: a walk whose worker never clears cont_iteration   *)
(* calls apply on every node exactly once, roots in stored order, a node   *)
(* before its children, children in stored order, a node's whole subtree   *)
(* before its next sibling; with no snapshot data it calls apply on        *)
(* nothing and nothing is raised by the walk.                              *)
(***************************************************************************)
C4_TraversalOrder ==
    /\ (pc # "start" /\ NeverStoppingWalk) =>
          LET s == vm.snapshot
          IN /\ Len(worker.visited) = s.n
             /\ \A node \in 1..s.n :
                   Cardinality({k \in 1..Len(worker.visited) :
                                   worker.visited[k].node = node}) = 1
             /\ \A node \in 1..s.n : s.parent[node] # 0 => Pos(s.parent[node]) < Pos(node)
             /\ \A par \in 0..s.n :
                   LET list == childSnapshotList(s, par)
                   IN \A a, b \in 1..Len(list) :
                         a < b =>
                            \A d \in 1..s.n :
                               IsAncestorOrSelf(s, list[a], d) => Pos(d) < Pos(list[b])
    /\ (pc # "start" /\ vm.exists /\ vm.snapshot.isNone
           /\ args.command \in FindCommands \cup {"snap-list"}
           /\ ~(args.command = "revert" /\ args.snap_is_None)) =>
          /\ worker.visited = <<>>
          /\ pc # "crash"
          /\ args.command = "snap-list" => pc = "done"

\* roots [A(children [B, C]), D] are visited A, B, C, D
C4_Witness ==
    /\ NeverStoppingWalk
    /\ vm.snapshot.parent = <<0, 1, 1, 0>>
    /\ vm.snapshot.name = << <<"A">>, <<"B">>, <<"C">>, <<"D">> >>
    /\ VisitedNodes = <<1, 2, 3, 4>>

(***************************************************************************)
(* C5.  Current tracking: get_curr_snap returns None, raising nothing,     *)
(* when the machine has no snapshot data or no current reference, and      *)
(* returns node N when the current reference is the reference of N.        *)
(***************************************************************************)
C5_CurrentTracking ==
    (pc # "start" /\ vm.exists /\ args.command = "get_curr_snap") =>
        /\ (vm.snapshot.isNone \/ vm.snapshot.currentSnapshot = None) =>
              pc = "done" /\ result = None
        /\ (~vm.snapshot.isNone /\ vm.snapshot.currentSnapshot \in 1..vm.snapshot.n) =>
              pc = "done" /\ result = vm.snapshot.currentSnapshot

(***************************************************************************)
(* C6.  Empty tree: on a machine with no snapshots, snap-list reports that *)
(* there are none, and revert without a target ends in an EctlException    *)
(* the top level reports, with exit status 1, no task submitted.           *)
(***************************************************************************)
C6_EmptyTree ==
    (pc # "start" /\ vm.exists /\ vm.snapshot.isNone) =>
        /\ args.command = "snap-list" =>
              pc = "done" /\ printed.msg = "No snapshots found for vm"
        /\ (args.command = "revert" /\ args.snap_is_None) =>
              pc = "error" /\ exit_code = 1 /\ tasks = <<>>

(***************************************************************************)
(* C7.  Every mutating host call is waited for: when the command has       *)
(* finished, no task it submitted is still running, and a task that ended  *)
(* otherwise than in success has made the command end in a reported        *)
(* failure.                                                                *)
(***************************************************************************)
C7_EveryMutationAwaited ==
    Finished =>
        \A i \in 1..Len(tasks) :
            /\ tasks[i].state # "running"
            /\ tasks[i].state # "success" => pc = "error"

(***************************************************************************)
(* C8.  exec_task: one submission with the caller's parameters, one wait,  *)
(* one outcome.  The command returns normally exactly when the task ended  *)
(* in success, and otherwise raises the error with the caller's label; no  *)
(* second task is submitted through exec_task, and after a failed revert   *)
(* no power-on is issued.                                                  *)
(***************************************************************************)
ExecCommands == {"snap-create", "snap-remove", "revert"}

\* the tasks submitted through exec_task
Awaited == {i \in 1..Len(tasks) : tasks[i].error_message # ""}

\* what the command hands to exec_task
ExpectedTask ==
    CASE args.command = "snap-create" ->
            [op |-> "CreateSnapshot", obj |-> "vm", params |-> <<args.snap, "", FALSE, FALSE>>,
             error_message |-> "Error creating snapshot"]
      [] args.command = "snap-remove" ->
            [op |-> "RemoveSnapshot_Task", obj |-> result, params |-> <<TRUE>>,
             error_message |-> "Error removing snapshots"]
      [] args.command = "revert" ->
            [op |-> "RevertToSnapshot_Task",
             obj |-> IF args.snap_is_None THEN vm.snapshot.currentSnapshot ELSE result,
             params |-> <<>>, error_message |-> "Error reverting snapshot"]

C8_ExecTaskProtocol ==
    /\ Awaited # {} => args.command \in ExecCommands /\ Awaited = {1}
    /\ pc = "waiting" => Awaited = {1}
    /\ \A i \in Awaited :
          LET task == tasks[i]
              e == ExpectedTask
          IN /\ task.op = e.op /\ task.obj = e.obj /\ task.params = e.params
             /\ task.error_message = e.error_message
             /\ pc = "waiting" <=> task.waits = 0
             /\ Finished <=> task.waits = 1
             /\ Finished => task.state # "running"
             /\ pc = "done" <=> (task.waits = 1 /\ task.state = "success")
             /\ pc = "error" <=> (task.waits = 1 /\ task.state # "success")
             /\ pc = "error" => error = e.error_message /\ exit_code = 1
             /\ (task.state # "success" /\ args.command = "revert") => Len(tasks) = 1

\* a revert --start whose revert task failed: the label is raised, and no
\* power-on follows
C8_Witness ==
    /\ args.command = "revert" /\ args.start
    /\ Awaited = {1}
    /\ tasks[1].state = "error" /\ tasks[1].waits = 1
    /\ pc = "error" /\ error = "Error reverting snapshot"
    /\ Len(tasks) = 1

(***************************************************************************)
(* C9.  By-id resolution of an id that two or more nodes carry.  As        *)
(* claimed: it always fails with the ambiguous-checkpoint error.           *)
(***************************************************************************)
DuplicatedId ==
    /\ Resolved /\ args.by_id
    /\ PyInt(args.snap).ok
    /\ Cardinality(NodesWithId(PyInt(args.snap).val)) >= 2

C9_DefensiveByIdAmbiguity ==
    DuplicatedId => Failed("has multiple snapshots named")

\* The carriers of the id that the walk still reaches after the first one in
\* listing order: its later siblings, the later siblings of its ancestors,
\* and the later roots.
LaterSiblingsOfLine(first, m) ==
    {j \in m : j > first /\ IsProperAncestor(vm.snapshot, vm.snapshot.parent[j], first)}

(***************************************************************************)
(* C9, as amended.  The ambiguous-checkpoint error is raised exactly when  *)
(* a second carrier of the id is a later sibling of the first carrier (in  *)
(* listing order) or of one of its ancestors, a later root included; when  *)
(* every other carrier is nested under the first one, or under a node      *)
(* listed after it, the first carrier is returned with no error.           *)
(***************************************************************************)
C9_ByIdAmbiguityOnSiblingLine ==
    DuplicatedId =>
        LET m == NodesWithId(PyInt(args.snap).val)
            first == Min(m)
        IN IF LaterSiblingsOfLine(first, m) # {}
           THEN Failed("has multiple snapshots named")
           ELSE Returned(first)

\* the second carrier is a sibling of an ancestor of the first
C9_Witness ==
    /\ DuplicatedId
    /\ LET m == NodesWithId(PyInt(args.snap).val)
           first == Min(m)
       IN \E j \in m :
             /\ j > first
             /\ vm.snapshot.parent[first] # 0
             /\ vm.snapshot.parent[j] # vm.snapshot.parent[first]
             /\ IsProperAncestor(vm.snapshot, vm.snapshot.parent[j], first)
    /\ Failed("has multiple snapshots named")

====
